---------------------------- MODULE Spec2Model ----------------------------
(***************************************************************************)
(* A model of the OSDI setup layer of ngspice (src/src/osdi/osdisetup.c):  *)
(* handle_init_info, collapse_nodes, write_node_mapping, write_state_ids,  *)
(* init_matrix, OSDIsetup, OSDItemp and OSDIunsetup.                       *)
(*                                                                         *)
(* Local node indices, collapsible pairs and Jacobian entries are indexed  *)
(* from 0 as in the C source: arrays are functions over 0..n-1.            *)
(***************************************************************************)
EXTENDS Integers, Sequences, FiniteSets, TLC

\* ------------------------------------------------------------------ bounds
MaxNodes == 3        \* SpecCollapse: descriptors have 1..MaxNodes nodes
MaxPairs == 2        \* SpecCollapse: descriptors have 0..MaxPairs collapsible pairs
MaxModels == 2       \* Spec: the model list holds 1..MaxModels models
MaxInsts == 2        \* Spec: the model list holds at most MaxInsts instances
MaxExternal == 1     \* Spec: the circuit has no or MaxExternal external nodes besides ground
MaxS0 == 1           \* Spec: the caller's state counter starts at MaxS0
MaxTempPasses == 1   \* SpecTemp: OSDItemp is called at most MaxTempPasses times
MaxGen == 2          \* SpecKLU: the KLU matrix is built and reordered MaxGen times in all
MaxErrors == 2       \* SpecHandle: an OsdiInitInfo carries 0..MaxErrors errors
MaxParams == 2       \* SpecHandle: the descriptor has MaxParams parameters

\* --------------------------------------------------------------- constants
\* A uint32_t is held as the 32-bit two's-complement integer with the same
\* bits, so that (int) of it is the value itself and UINT32_MAX, the "collapse
\* to ground" sentinel of node_2 and of node_mapping, is -1.
UINT32_MAX == -1
INT32_MIN == -2147483647 - 1
INT32_MAX == 2147483647

Range(f) == {f[x] : x \in DOMAIN f}

\* a C array of n elements given by a sequence
Arr(s) == [i \in 0..(Len(s) - 1) |-> s[i + 1]]

\* the descriptor's pair of nodes (OsdiNodePair)
Pair(a, b) == [node_1 |-> a, node_2 |-> b]

\* a < b for two uint32_t
U32Lt(a, b) == IF (a >= 0) = (b >= 0) THEN a < b ELSE b < 0

\* uint32_t x - 1
DecU32(x) == IF x = INT32_MIN THEN INT32_MAX ELSE x - 1

\* ----------------------------------------------------------- collapse_nodes
\* node_mapping[i] = i for the num_nodes nodes of the descriptor
IdentityMapping(n) == [i \in 0..(n - 1) |-> i]

\* the state of collapse_nodes before the loop over the collapsible pairs
CollapseStart(descr) ==
    [node_mapping |-> IdentityMapping(descr.num_nodes), num_nodes |-> descr.num_nodes]

\* the guard "terminals created by the simulator cannot be collapsed"
TerminalSkip(nm, from, to, connected_terminals) ==
    /\ U32Lt(nm[from], connected_terminals)
    /\ \/ to = UINT32_MAX
       \/ U32Lt(nm[to], connected_terminals)
       \/ nm[to] = UINT32_MAX

\* "replace nodes mapped to from with to and reduce the number of nodes"
ReplaceAndCompact(nm, from, to) ==
    [j \in DOMAIN nm |->
        IF nm[j] = from THEN to
        ELSE IF U32Lt(from, nm[j]) /\ nm[j] # UINT32_MAX THEN DecU32(nm[j])
        ELSE nm[j]]

\* one iteration of the loop over the collapsible pairs, for pair i
CollapseIter(descr, collapsed, connected_terminals, st, i) ==
    IF ~collapsed[i] THEN st
    ELSE
      LET nm    == st.node_mapping
          from0 == descr.collapsible[i].node_1
          to0   == descr.collapsible[i].node_2
      IN
      IF TerminalSkip(nm, from0, to0, connected_terminals) THEN st
      ELSE
        LET swap  == to0 # UINT32_MAX /\ U32Lt(nm[from0], nm[to0])
            from1 == IF swap THEN to0 ELSE from0
            to1   == IF swap THEN from0 ELSE to0
            from  == nm[from1]
            to    == IF to1 # UINT32_MAX THEN nm[to1] ELSE to1
        IN [node_mapping |-> ReplaceAndCompact(nm, from, to),
            num_nodes    |-> DecU32(st.num_nodes)]

RECURSIVE CollapseFrom(_, _, _, _, _)
CollapseFrom(descr, collapsed, connected_terminals, st, i) ==
    IF i >= descr.num_collapsible THEN st
    ELSE CollapseFrom(descr, collapsed, connected_terminals,
                      CollapseIter(descr, collapsed, connected_terminals, st, i), i + 1)

\* collapse_nodes: the node mapping it leaves and the node count it returns
collapse_nodes(descr, collapsed, connected_terminals) ==
    CollapseFrom(descr, collapsed, connected_terminals, CollapseStart(descr), 0)


\* ------------------------------------------------------------ descriptors
\* an OsdiNode: its name, whether it is a flow (current) node, and the
\* offset of its reactive residual (UINT32_MAX: none)
Node(name, is_flow, react_residual_off) ==
    [name |-> name, is_flow |-> is_flow, react_residual_off |-> react_residual_off]

\* an OsdiJacobianEntry: (equation, unknown) and the offset of the reactive
\* pointer (UINT32_MAX: none)
JacobianEntry(eq, unk, react_ptr_off) ==
    [nodes |-> Pair(eq, unk), react_ptr_off |-> react_ptr_off]

Descriptor(num_terminals, nodes, collapsible, jacobian_entries, num_states) ==
    [num_nodes            |-> Len(nodes),
     num_terminals        |-> num_terminals,
     nodes                |-> Arr(nodes),
     num_collapsible      |-> Len(collapsible),
     collapsible          |-> Arr(collapsible),
     num_jacobian_entries |-> Len(jacobian_entries),
     jacobian_entries     |-> Arr(jacobian_entries),
     num_states           |-> num_states]

\* two terminals and one internal node that can collapse into terminal 1
DescrA ==
    Descriptor(2,
        << Node("A", FALSE, UINT32_MAX), Node("C", FALSE, UINT32_MAX),
           Node("ci", FALSE, 16) >>,
        << Pair(2, 1) >>,
        << JacobianEntry(0, 0, UINT32_MAX), JacobianEntry(0, 2, 24),
           JacobianEntry(2, 1, UINT32_MAX) >>,
        1)

\* one terminal and three internal nodes (one a flow node); node 2 can
\* collapse to ground and into node 3
DescrB ==
    Descriptor(1,
        << Node("p", FALSE, UINT32_MAX), Node("br", TRUE, UINT32_MAX),
           Node("x", FALSE, UINT32_MAX), Node("y", FALSE, UINT32_MAX) >>,
        << Pair(2, UINT32_MAX), Pair(2, 3) >>,
        << JacobianEntry(0, 3, UINT32_MAX), JacobianEntry(2, 1, 32) >>,
        2)

Descriptors == {DescrA, DescrB}

\* ------------------------------------------------------- handle_init_info
EVAL_RET_FLAG_FATAL == "EVAL_RET_FLAG_FATAL"
EVAL_RET_FLAG_FINISH == "EVAL_RET_FLAG_FINISH"
INIT_ERR_OUT_OF_BOUNDS == "INIT_ERR_OUT_OF_BOUNDS"
INIT_ERR_UNKNOWN == "unknown code"

\* a flag of OsdiInitInfo.flags that handle_init_info does not test
EVAL_RET_FLAG_OTHER == "another flag"

\* an OsdiInitError: its code and payload.parameter_id
InitError(code, parameter_id) == [code |-> code, parameter_id |-> parameter_id]

InitInfo(flags, errors) ==
    [flags |-> flags, num_errors |-> Len(errors), errors |-> errors]

\* what setup_model and setup_instance may return
InitInfos ==
    { InitInfo({}, << >>),
      InitInfo({EVAL_RET_FLAG_FATAL}, << >>),
      InitInfo({EVAL_RET_FLAG_FINISH}, << InitError(INIT_ERR_OUT_OF_BOUNDS, 0) >>),
      InitInfo({}, << InitError(INIT_ERR_OUT_OF_BOUNDS, 0) >>),
      InitInfo({}, << InitError(INIT_ERR_UNKNOWN, 0),
                      InitError(INIT_ERR_OUT_OF_BOUNDS, 0) >>) }

\* the list of errors is looked at before the flags
handle_init_info_ErrorsFirst(info) ==
    IF info.num_errors # 0 THEN "E_PRIVATE"
    ELSE IF info.flags \cap {EVAL_RET_FLAG_FATAL, EVAL_RET_FLAG_FINISH} # {} THEN "E_PANIC"
    ELSE "OK"

handle_init_info(info) ==
    IF info.flags \cap {EVAL_RET_FLAG_FATAL, EVAL_RET_FLAG_FINISH} # {} THEN "E_PANIC"
    ELSE IF info.num_errors = 0 THEN "OK"
    ELSE "E_PRIVATE"

\* the lines handle_init_info prints for the errors of info: the parameter
\* of an out-of-bounds error, the code of any other
Printed(info) ==
    [i \in 1..info.num_errors |->
        IF info.errors[i].code = INIT_ERR_OUT_OF_BOUNDS
        THEN << "out of bounds", info.errors[i].parameter_id >>
        ELSE << "unknown code", info.errors[i].code >>]

\* -------------------------------------------------------- collaborators
Max(S) == CHOOSE x \in S : \A y \in S : y <= x

\* CKTmkVolt / CKTmkCur: the number of the node they create
NewNodeNumber(nodes) == Max(nodes) + 1

\* CKTdltNNum: the circuit's nodes after deleting node num (deleting a node
\* that is not in the list takes no action)
CKTdltNNum(nodes, num) == nodes \ {num}

\* SMPmakeElt: the address of the coefficient (row, col); row 0 and column 0
\* are not part of the matrix
SMPmakeElt(row, col) ==
    IF row = 0 \/ col = 0 THEN [mem |-> "COO", gen |-> 0, row |-> 0, col |-> 0, off |-> 0]
    ELSE [mem |-> "COO", gen |-> 0, row |-> row, col |-> col, off |-> 0]

\* double *ptr + 1
PtrPlus1(ptr) == [ptr EXCEPT !.off = @ + 1]

NULL == [mem |-> "NULL", gen |-> 0, row |-> -1, col |-> -1, off |-> 0]

\* the BindElement of the coefficient (row, col) in the binding table of the
\* KLU matrix as built for the gen-th time: the address of the coefficient in
\* the linked list (COO), in the compressed columns (CSC) and in the complex
\* compressed columns (CSC_Complex)
BindElement(gen, row, col) ==
    [COO         |-> SMPmakeElt(row, col),
     CSC         |-> [mem |-> "CSC", gen |-> gen, row |-> row, col |-> col, off |-> 0],
     CSC_Complex |-> [mem |-> "CSC_Complex", gen |-> gen, row |-> row, col |-> col,
                      off |-> 0]]

\* KLUmatrixBindStructCOO: the binding table of a KLU matrix k
Bindings(k) == {BindElement(k.gen, rc[1], rc[2]) : rc \in k.table}

\* TMALLOC: zeroed memory
TMALLOC(n) == [i \in 0..(n - 1) |-> 0]

\* ------------------------------------------- helpers of OSDIsetup
\* one state per node with a reactive residual instead of two
NumStates_OnePerNode(descr) ==
    descr.num_states
      + Cardinality({i \in 0..(descr.num_nodes - 1) :
                        descr.nodes[i].react_residual_off # UINT32_MAX})

\* "determine the number of states required by each instance"
NumStates(descr) ==
    descr.num_states
      + 2 * Cardinality({i \in 0..(descr.num_nodes - 1) :
                            descr.nodes[i].react_residual_off # UINT32_MAX})

\* dt is added only when the instance has no temperature of its own
EffectiveTemp_DtOnlyOnCircuit(ckt_temp, extra_inst_data) ==
    IF extra_inst_data.temp_given THEN extra_inst_data.temp
    ELSE IF extra_inst_data.dt_given THEN ckt_temp + extra_inst_data.dt
    ELSE ckt_temp

\* OSDIsetup, "special handling for temperature parameters"
EffectiveTemp(ckt_temp, extra_inst_data) ==
    LET temp0 == ckt_temp
        temp1 == IF extra_inst_data.temp_given THEN extra_inst_data.temp ELSE temp0
    IN IF extra_inst_data.dt_given THEN temp1 + extra_inst_data.dt ELSE temp1

\* OSDItemp, "special handleing for temperature parameters"
TempEffectiveTemp(ckt_temp, extra_inst_data) ==
    LET temp0 == ckt_temp
        temp1 == IF extra_inst_data.temp_given THEN extra_inst_data.temp ELSE temp0
    IN IF extra_inst_data.dt_given THEN temp1 + extra_inst_data.dt ELSE temp1

\* OSDItemp, "find number of connected ports"
TempConnectedTerminals(descr, terminals) ==
    LET open == {i \in 0..(descr.num_terminals - 1) : terminals[i] = -1}
    IN IF open = {} THEN descr.num_terminals
       ELSE CHOOSE i \in open : \A j \in open : i <= j

\* "find number of connected ports": the index of the first terminal that
\* is -1, num_terminals when there is none
ConnectedTerminals(descr, terminals) ==
    LET open == {i \in 0..(descr.num_terminals - 1) : terminals[i] = -1}
    IN IF open = {} THEN descr.num_terminals
       ELSE CHOOSE i \in open : \A j \in open : i <= j

\* memcpy(node_ids, gen_inst + 1, sizeof(int) * connected_terminals)
CopyTerminals(node_ids, terminals, connected_terminals) ==
    [i \in DOMAIN node_ids |->
        IF i < connected_terminals THEN terminals[i] ELSE node_ids[i]]

\* "create internal nodes as required": the loop from node i on; the call
\* for node failAt returns an error
RECURSIVE MkNodes(_, _, _, _, _, _, _)
MkNodes(descr, nodes, node_ids, log, i, num_nodes, failAt) ==
    IF ~U32Lt(i, num_nodes) THEN
        [error |-> "OK", nodes |-> nodes, node_ids |-> node_ids, log |-> log]
    ELSE IF i = failAt THEN
        [error |-> "E_NOMEM", nodes |-> nodes, node_ids |-> node_ids, log |-> log]
    ELSE
        LET n == NewNodeNumber(nodes)
            kind == IF descr.nodes[i].is_flow THEN "CKTmkCur" ELSE "CKTmkVolt"
        IN MkNodes(descr, nodes \cup {n}, [node_ids EXCEPT ![i] = n],
                   Append(log, [number |-> n, kind |-> kind,
                                name |-> descr.nodes[i].name]),
                   i + 1, num_nodes, failAt)

write_node_mapping(node_mapping, nodes) ==
    [i \in DOMAIN node_mapping |->
        IF node_mapping[i] = UINT32_MAX THEN 0 ELSE nodes[node_mapping[i]]]

write_state_ids(descr, state_start) ==
    [i \in 0..(descr.num_states - 1) |-> state_start + i]

\* SMPmakeElt is called with the local node indices of the entry instead of
\* the global ones of the node mapping
InitMatrixFrom_Local(descr, node_mapping, jac, mat, i, failAt) ==
    [error  |-> IF failAt >= 0 /\ failAt < descr.num_jacobian_entries
                THEN "E_NOMEM" ELSE "OK",
     jac    |-> [resist |-> [e \in DOMAIN jac.resist |->
                              IF failAt >= 0 /\ e >= failAt THEN jac.resist[e]
                              ELSE SMPmakeElt(descr.jacobian_entries[e].nodes.node_1 + 1,
                                              descr.jacobian_entries[e].nodes.node_2 + 1)],
                 react  |-> jac.react],
     matrix |-> mat]

\* init_matrix: the loop from Jacobian entry i on; SMPmakeElt returns NULL
\* for entry failAt
RECURSIVE InitMatrixFrom(_, _, _, _, _, _)
InitMatrixFrom(descr, node_mapping, jac, mat, i, failAt) ==
    IF i >= descr.num_jacobian_entries THEN
        [error |-> "OK", jac |-> jac, matrix |-> mat]
    ELSE
        LET equation == node_mapping[descr.jacobian_entries[i].nodes.node_1]
            unkown   == node_mapping[descr.jacobian_entries[i].nodes.node_2]
            ptr      == SMPmakeElt(equation, unkown)
            react_off == descr.jacobian_entries[i].react_ptr_off
        IN IF i = failAt THEN [error |-> "E_NOMEM", jac |-> jac, matrix |-> mat]
           ELSE InitMatrixFrom(descr, node_mapping,
                    [resist |-> [jac.resist EXCEPT ![i] = ptr],
                     react  |-> IF react_off # UINT32_MAX
                                THEN [jac.react EXCEPT ![i] = PtrPlus1(ptr)]
                                ELSE jac.react],
                    IF equation = 0 \/ unkown = 0 THEN mat
                    ELSE mat \cup {<<equation, unkown>>},
                    i + 1, failAt)

init_matrix(descr, node_mapping, jac, mat, failAt) ==
    InitMatrixFrom(descr, node_mapping, jac, mat, 0, failAt)

\* the (row, column) arguments of the SMPmakeElt calls of init_matrix, in
\* order: one call for every Jacobian entry up to the one that fails
SMPmakeEltCalls(descr, node_mapping, failAt) ==
    LET last == IF failAt >= 0 /\ failAt < descr.num_jacobian_entries
                THEN failAt ELSE descr.num_jacobian_entries - 1
    IN [k \in 1..(last + 1) |->
          << node_mapping[descr.jacobian_entries[k - 1].nodes.node_1],
             node_mapping[descr.jacobian_entries[k - 1].nodes.node_2] >>]


\* ------------------------------------------------------------------- KLU
\* bsearch(&tmp, bindings, nz, sizeof(BindElement), BindCompare): the element
\* of the table whose COO address is ptr, NULL when there is none
Bsearch(bindings, ptr) ==
    IF \E b \in bindings : b.COO = ptr
    THEN CHOOSE b \in bindings : b.COO = ptr
    ELSE NULL

\* init_matrix_klu that goes on after an address is not found
InitMatrixKluFrom_Continue(descr, node_mapping, jac, ptrs, bindings, i) ==
    LET bound == {e \in 0..(descr.num_jacobian_entries - 1) :
                    /\ node_mapping[descr.jacobian_entries[e].nodes.node_1] # 0
                    /\ node_mapping[descr.jacobian_entries[e].nodes.node_2] # 0
                    /\ Bsearch(bindings, jac.resist[e]) # NULL}
    IN [error |-> "OK",
        jac   |-> [resist |-> [e \in DOMAIN jac.resist |->
                                IF e \in bound THEN Bsearch(bindings, jac.resist[e]).CSC
                                ELSE jac.resist[e]],
                   react  |-> [e \in DOMAIN jac.react |->
                                IF e \in bound
                                   /\ descr.jacobian_entries[e].react_ptr_off # UINT32_MAX
                                THEN PtrPlus1(Bsearch(bindings, jac.resist[e]).CSC_Complex)
                                ELSE jac.react[e]]],
        ptrs  |-> [k \in DOMAIN ptrs |->
                     IF (k \div 2) \in bound
                     THEN IF k % 2 = 0
                          THEN Bsearch(bindings, jac.resist[k \div 2]).CSC
                          ELSE Bsearch(bindings, jac.resist[k \div 2]).CSC_Complex
                     ELSE ptrs[k]]]

\* init_matrix_klu: the loop from Jacobian entry i on, with the binding
\* table bindings and the array inst_matrix_ptrs of the instance
RECURSIVE InitMatrixKluFrom(_, _, _, _, _, _)
InitMatrixKluFrom(descr, node_mapping, jac, ptrs, bindings, i) ==
    IF i >= descr.num_jacobian_entries THEN
        [error |-> "OK", jac |-> jac, ptrs |-> ptrs]
    ELSE
        LET equation == node_mapping[descr.jacobian_entries[i].nodes.node_1]
            unkown   == node_mapping[descr.jacobian_entries[i].nodes.node_2]
        IN IF equation # 0 /\ unkown # 0 THEN
             LET matched   == Bsearch(bindings, jac.resist[i])
                 react_off == descr.jacobian_entries[i].react_ptr_off
             IN IF matched = NULL THEN
                  [error |-> "E_PANIC", jac |-> jac, ptrs |-> ptrs]
                ELSE
                  InitMatrixKluFrom(descr, node_mapping,
                      [resist |-> [jac.resist EXCEPT ![i] = matched.CSC],
                       react  |-> IF react_off # UINT32_MAX
                                  THEN [jac.react EXCEPT ![i] = PtrPlus1(matched.CSC_Complex)]
                                  ELSE jac.react],
                      [ptrs EXCEPT ![2 * i] = matched.CSC,
                                   ![2 * i + 1] = matched.CSC_Complex],
                      bindings, i + 1)
           ELSE InitMatrixKluFrom(descr, node_mapping, jac, ptrs, bindings, i + 1)

init_matrix_klu(descr, node_mapping, jac, ptrs, bindings) ==
    InitMatrixKluFrom(descr, node_mapping, jac, ptrs, bindings, 0)

\* the cached address is taken for the ground entries too
update_matrix_klu_NoGroundTest(descr, node_mapping, jac, ptrs, complex) ==
    [jac EXCEPT !.resist =
        [i \in DOMAIN jac.resist |-> ptrs[2 * i + (IF complex THEN 1 ELSE 0)]]]

\* update_matrix_klu: the Jacobian addresses it leaves
update_matrix_klu(descr, node_mapping, jac, ptrs, complex) ==
    [jac EXCEPT !.resist =
        [i \in DOMAIN jac.resist |->
            LET equation == node_mapping[descr.jacobian_entries[i].nodes.node_1]
                unkown   == node_mapping[descr.jacobian_entries[i].nodes.node_2]
            IN IF equation # 0 /\ unkown # 0
               THEN ptrs[2 * i + (IF complex THEN 1 ELSE 0)]
               ELSE jac.resist[i]]]

\* ------------------------------------------------------------------ state
VARIABLES
    descr,        \* entry->descriptor, shared by every model of the list
    netlist,      \* the model list: the number of instances of each model
    inst,         \* the instance data, by <<model, instance>>
    ckt_nodes,    \* the numbers of the circuit's nodes (CKTnodes)
    prev_CKTlastNode, \* ckt->prev_CKTlastNode->number
    matrix,       \* the coefficients the matrix holds
    states,       \* *states, the caller's state counter
    pc,           \* "idle", or the function that is running
    loc,          \* the position of its loops: model m, instance i (0: at setup_model)
    res,          \* the local res
    node_ids,     \* the temporary buffer of OSDIsetup
    ret,          \* the last call that returned, its status, and the call before it
    phase,        \* the lifecycle state of the model list
    \* what the current (or last) setup pass did
    s0,           \* the state counter when it began
    modRes,       \* handle_init_info's result for each setup_model call
    instRes,      \* handle_init_info's result for each setup_instance call
    allocLog,     \* the nodes created for each instance
    eltLog,       \* the (row, column) of the SMPmakeElt calls for each instance
    order,        \* the instances that were set up, in processing order
    aborted,      \* the instance whose node or matrix allocation failed
    \* what the last unsetup did
    relLog,       \* the node numbers handed to CKTdltNNum, by instance
    \* temperatures (in kelvin, whole numbers)
    CKTtemp,      \* ckt->CKTtemp
    extra,        \* the OsdiExtraInstData of each instance
    passed,       \* the temp and connected_terminals setup_instance was last
                  \* called with, by OSDIsetup and by OSDItemp, for each instance
    tempPasses,   \* the number of calls of OSDItemp since setup
    \* the KLU solver
    klu,          \* the binding table of the matrix and what was bound from it
    matrix_ptrs,  \* osdi_instance_matrix_ptr: the cached addresses of each instance
    \* collapse_nodes on its own (SpecCollapse)
    cDescr, cCt, cCollapsed, cSt, cI, cMerged, cSkipped,
    \* handle_init_info on its own (SpecHandle)
    hInfo,        \* the OsdiInitInfo it is called with
    hRes,         \* what it returned ("none" until it has)
    hOut,         \* the lines it printed
    errMsg        \* the number of errors in the message it left in errMsg (0: none)

mainVars == << descr, netlist, inst, ckt_nodes, prev_CKTlastNode, matrix, states,
               pc, loc, res, node_ids, ret, phase, s0, modRes, instRes, allocLog,
               eltLog, order, aborted, relLog, CKTtemp, extra, passed, tempPasses,
               klu, matrix_ptrs >>
tempInputs == << CKTtemp, extra >>
kluVars == << klu, matrix_ptrs >>
collapseVars == << cDescr, cCt, cCollapsed, cSt, cI, cMerged, cSkipped >>
handleVars == << hInfo, hRes, hOut, errMsg >>
vars == << mainVars, collapseVars, handleVars >>

\* ---------------------------------------------------------- the model list
Ids(nl) == {id \in (1..Len(nl)) \X (1..MaxInsts) : id[2] <= nl[id[1]]}

RECURSIVE SumSeq(_)
SumSeq(s) == IF s = << >> THEN 0 ELSE Head(s) + SumSeq(Tail(s))

Netlists ==
    {nl \in UNION {[1..n -> 0..MaxInsts] : n \in 1..MaxModels} :
        SumSeq(nl) <= MaxInsts}

\* the terminals of an instance: terminal j is connected to external node
\* j + 1 (to the last external node, or ground, when there are fewer), and
\* the terminals from c on are not connected (-1)
Terminals(d, ext, c) ==
    [j \in 0..(d.num_terminals - 1) |->
        IF j >= c THEN -1 ELSE IF j + 1 <= ext THEN j + 1 ELSE ext]

TerminalChoices(d, ext) ==
    {Terminals(d, ext, c) : c \in {d.num_terminals, d.num_terminals - 1}}

\* an instance as allocated: zeroed memory
NewInstance(d, terminals) ==
    [terminals    |-> terminals,
     node_mapping |-> [i \in 0..(d.num_nodes - 1) |-> 0],
     collapsed    |-> [i \in 0..(d.num_collapsible - 1) |-> FALSE],
     GENstate     |-> 0,
     state_idx    |-> [i \in 0..(d.num_states - 1) |-> 0],
     jac          |-> [resist |-> [i \in 0..(d.num_jacobian_entries - 1) |-> NULL],
                       react  |-> [i \in 0..(d.num_jacobian_entries - 1) |-> NULL]]]

NoLog(nl, v) == [id \in Ids(nl) |-> v]

\* an OsdiExtraInstData: the instance parameters temp and dt
ExtraInstData(temp_given, temp, dt_given, dt) ==
    [temp_given |-> temp_given, temp |-> temp, dt_given |-> dt_given, dt |-> dt]

NoExtra == ExtraInstData(FALSE, 0, FALSE, 0)

\* setup_instance was not called for the instance
NotCalled == [setup |-> << >>, temp |-> << >>]

\* no KLU matrix: no binding table, nothing bound
KluIdle ==
    klu = [gen |-> 0, table |-> {}, bound |-> FALSE, boundOnce |-> FALSE,
           stored |-> << >>]

\* the array osdi_instance_matrix_ptr returns, as allocated: two addresses for
\* every Jacobian entry
NewMatrixPtrs(d) == [k \in 0..(2 * d.num_jacobian_entries - 1) |-> NULL]

HandleIdle ==
    /\ hInfo = InitInfo({}, << >>)
    /\ hRes = "none"
    /\ hOut = << >>
    /\ errMsg = 0

CollapseIdle ==
    /\ cDescr = DescrA
    /\ cCt = 0
    /\ cCollapsed = << >>
    /\ cSt = CollapseStart(DescrA)
    /\ cI = 0
    /\ cMerged = 0
    /\ cSkipped = 0

\* the state when OSDIsetup is called, but for the temperatures
InitSetup ==
    /\ descr \in Descriptors
    /\ netlist \in Netlists
    /\ prev_CKTlastNode \in {0, MaxExternal}
    /\ ckt_nodes = 0..prev_CKTlastNode
    /\ \E t \in TerminalChoices(descr, prev_CKTlastNode) :
         inst = [id \in Ids(netlist) |-> NewInstance(descr, t)]
    /\ matrix = {}
    /\ states = MaxS0
    /\ pc = "idle"
    /\ loc = [m |-> 0, i |-> 0]
    /\ res = "OK"
    /\ node_ids = << >>
    /\ ret = [op |-> "none", status |-> "OK", prev |-> "none"]
    /\ phase = "Uninitialized"
    /\ s0 = states
    /\ modRes = [m \in 1..Len(netlist) |-> "none"]
    /\ instRes = NoLog(netlist, "none")
    /\ allocLog = NoLog(netlist, << >>)
    /\ eltLog = NoLog(netlist, << >>)
    /\ order = << >>
    /\ aborted = << >>
    /\ relLog = NoLog(netlist, {})
    /\ passed = NoLog(netlist, NotCalled)
    /\ tempPasses = 0
    /\ CollapseIdle
    /\ HandleIdle
    /\ KluIdle
    /\ matrix_ptrs = NoLog(netlist, NewMatrixPtrs(descr))

\* the circuit is at 300 K and no instance has a temperature of its own
Init ==
    /\ InitSetup
    /\ CKTtemp = 300
    /\ extra = NoLog(netlist, NoExtra)

\* ------------------------------------------------------------ loop positions
\* the position after setup_model of model m succeeded
FirstInstance(m) ==
    IF netlist[m] >= 1 THEN [m |-> m, i |-> 1] ELSE [m |-> m + 1, i |-> 0]

\* the loop over the instances of model m ends after instance i
NextInstance_LeavesModel(m, i) == [m |-> m + 1, i |-> 0]

\* the position after the body for instance i of model m (also by continue)
NextInstance(m, i) ==
    IF i < netlist[m] THEN [m |-> m, i |-> i + 1] ELSE [m |-> m + 1, i |-> 0]

\* the flags setup_instance may leave: it sets flags and clears none
FlagChoices(old) ==
    {f \in [DOMAIN old -> BOOLEAN] : \A k \in DOMAIN old : old[k] => f[k]}

Returned(op, status) ==
    /\ pc' = "idle"
    /\ loc' = [m |-> 0, i |-> 0]
    /\ ret' = [op |-> op, status |-> status, prev |-> ret.op]


\* ------------------------------------------------------------- OSDIsetup
\* the caller enters OSDIsetup: the locals before the loop over the models
SetupBegin ==
    /\ pc = "idle"
    /\ phase = "Uninitialized"
    /\ phase' = "Bound"
    /\ pc' = "OSDIsetup"
    /\ loc' = [m |-> 1, i |-> 0]
    /\ res' = "OK"
    /\ node_ids' = TMALLOC(descr.num_nodes)
    /\ s0' = states
    /\ modRes' = [m \in 1..Len(netlist) |-> "none"]
    /\ instRes' = NoLog(netlist, "none")
    /\ allocLog' = NoLog(netlist, << >>)
    /\ eltLog' = NoLog(netlist, << >>)
    /\ passed' = NoLog(netlist, NotCalled)
    /\ tempPasses' = 0
    /\ order' = << >>
    /\ aborted' = << >>
    /\ UNCHANGED << descr, netlist, inst, ckt_nodes, prev_CKTlastNode, matrix, states,
                    ret, relLog, collapseVars, handleVars, tempInputs, kluVars >>

\* an error of setup_model leaves the loop over the models instead of
\* continuing it
AfterSetupModel_Break(m, r) ==
    IF r # "OK" THEN [m |-> Len(netlist) + 1, i |-> 0] ELSE FirstInstance(m)

\* where the loop over the models goes after handle_init_info returned r
\* for setup_model of model m
AfterSetupModel(m, r) ==
    IF r # "OK" THEN [m |-> m + 1, i |-> 0] ELSE FirstInstance(m)

\* one iteration of the loop over the models, up to its loop over the instances
SetupModel ==
    /\ pc = "OSDIsetup"
    /\ loc.i = 0
    /\ loc.m <= Len(netlist)
    /\ \E info \in InitInfos :
         LET r == handle_init_info(info) IN
         /\ res' = r
         /\ modRes' = [modRes EXCEPT ![loc.m] = r]
         /\ loc' = AfterSetupModel(loc.m, r)
    /\ UNCHANGED << descr, netlist, inst, ckt_nodes, prev_CKTlastNode, matrix, states,
                    pc, node_ids, ret, phase, s0, instRes, allocLog, eltLog, order,
                    aborted, relLog, collapseVars, handleVars, tempInputs, tempPasses, kluVars, passed >>

\* the body of the loop over the instances after setup_instance succeeded,
\* for the instance data I0 (with the flags setup_instance left): what it
\* leaves when node creation fails at node failNode and SMPmakeElt at
\* Jacobian entry failElt (-1: no failure)
InstanceBody(I0, failNode, failElt) ==
    LET ct  == ConnectedTerminals(descr, I0.terminals)
        cs  == collapse_nodes(descr, I0.collapsed, ct)
        mk  == MkNodes(descr, ckt_nodes, CopyTerminals(node_ids, I0.terminals, ct),
                       << >>, ct, cs.num_nodes, failNode)
        nm  == write_node_mapping(cs.node_mapping, mk.node_ids)
        im  == init_matrix(descr, nm, I0.jac, matrix, failElt)
    IN
    IF mk.error # "OK" THEN
        [error |-> mk.error, inst |-> [I0 EXCEPT !.node_mapping = cs.node_mapping],
         nodes |-> mk.nodes, node_ids |-> mk.node_ids, log |-> mk.log,
         calls |-> << >>, matrix |-> matrix, states |-> states]
    ELSE IF im.error # "OK" THEN
        [error |-> im.error,
         inst |-> [I0 EXCEPT !.node_mapping = nm, !.jac = im.jac],
         nodes |-> mk.nodes, node_ids |-> mk.node_ids, log |-> mk.log,
         calls |-> SMPmakeEltCalls(descr, nm, failElt),
         matrix |-> im.matrix, states |-> states]
    ELSE
        [error |-> "OK",
         inst |-> [I0 EXCEPT !.node_mapping = nm, !.jac = im.jac,
                             !.GENstate = states,
                             !.state_idx = write_state_ids(descr, states)],
         nodes |-> mk.nodes, node_ids |-> mk.node_ids, log |-> mk.log,
         calls |-> SMPmakeEltCalls(descr, nm, failElt),
         matrix |-> im.matrix, states |-> states + NumStates(descr)]

\* the failures the collaborators may answer with: at most one, of node
\* creation (for a node the descriptor has) or of SMPmakeElt
FailChoices ==
    {<<n, -1>> : n \in -1..(descr.num_nodes - 1)}
      \cup {<<-1, e>> : e \in 0..(descr.num_jacobian_entries - 1)}

\* the error of node creation or of init_matrix is dropped
ReturnsEarly_Never(error) == FALSE

\* "if (error) return (error);" and "if (err) return err;"
ReturnsEarly(error) == error # "OK"

\* one iteration of the loop over the instances of a model
SetupInstance ==
    /\ pc = "OSDIsetup"
    /\ loc.i >= 1
    /\ LET id == <<loc.m, loc.i>> IN
       \E info \in InitInfos :
         LET r == handle_init_info(info) IN
         /\ instRes' = [instRes EXCEPT ![id] = r]
         /\ passed' = [passed EXCEPT ![id].setup =
                          << EffectiveTemp(CKTtemp, extra[id]),
                             ConnectedTerminals(descr, inst[id].terminals) >>]
         /\ IF r # "OK" THEN
              /\ res' = r
              /\ loc' = NextInstance(loc.m, loc.i)
              /\ UNCHANGED << inst, ckt_nodes, matrix, states, pc, node_ids, ret,
                              allocLog, eltLog, order, aborted >>
            ELSE
              \E flags \in FlagChoices(inst[id].collapsed), fail \in FailChoices :
                LET I0 == [inst[id] EXCEPT !.collapsed = flags]
                    b  == InstanceBody(I0, fail[1], fail[2])
                IN
                /\ res' = r
                /\ inst' = [inst EXCEPT ![id] = b.inst]
                /\ ckt_nodes' = b.nodes
                /\ matrix' = b.matrix
                /\ states' = b.states
                /\ allocLog' = [allocLog EXCEPT ![id] = b.log]
                /\ eltLog' = [eltLog EXCEPT ![id] = b.calls]
                /\ order' = IF b.error = "OK" THEN Append(order, id) ELSE order
                /\ aborted' = IF b.error = "OK" THEN aborted ELSE << id >>
                /\ IF ReturnsEarly(b.error) THEN
                     /\ Returned("OSDIsetup", b.error)
                     /\ node_ids' = << >>
                   ELSE
                     /\ loc' = NextInstance(loc.m, loc.i)
                     /\ node_ids' = b.node_ids
                     /\ UNCHANGED << pc, ret >>
    /\ UNCHANGED << descr, netlist, prev_CKTlastNode, phase, s0, modRes,
                    relLog, collapseVars, handleVars, tempInputs, tempPasses, kluVars >>

\* after the loop over the models: free(node_ids); return res
SetupReturn ==
    /\ pc = "OSDIsetup"
    /\ loc.m > Len(netlist)
    /\ Returned("OSDIsetup", res)
    /\ node_ids' = << >>
    /\ UNCHANGED << descr, netlist, inst, ckt_nodes, prev_CKTlastNode, matrix, states,
                    res, phase, s0, modRes, instRes, allocLog, eltLog, order, aborted,
                    relLog, collapseVars, handleVars, tempInputs, tempPasses, kluVars, passed >>

\* -------------------------------------------------------------- OSDItemp
\* the simulator updates the temperature after a setup (or an update) that
\* returned OK
TempBegin ==
    /\ pc = "idle"
    /\ phase \in {"Bound", "TemperatureUpdated"}
    /\ ret.status = "OK"
    /\ aborted = << >>
    /\ tempPasses < MaxTempPasses
    /\ tempPasses' = tempPasses + 1
    /\ phase' = "TemperatureUpdated"
    /\ pc' = "OSDItemp"
    /\ loc' = [m |-> 1, i |-> 0]
    /\ res' = "OK"
    /\ UNCHANGED << descr, netlist, inst, ckt_nodes, prev_CKTlastNode, matrix, states,
                    node_ids, ret, s0, modRes, instRes, allocLog, eltLog, order,
                    aborted, relLog, collapseVars, handleVars, tempInputs, kluVars, passed >>

TempModel ==
    /\ pc = "OSDItemp"
    /\ loc.i = 0
    /\ loc.m <= Len(netlist)
    /\ \E info \in InitInfos :
         LET r == handle_init_info(info) IN
         /\ res' = r
         /\ loc' = AfterSetupModel(loc.m, r)
    /\ UNCHANGED << descr, netlist, inst, ckt_nodes, prev_CKTlastNode, matrix, states,
                    pc, node_ids, ret, phase, s0, modRes, instRes, allocLog, eltLog,
                    order, aborted, relLog, collapseVars, handleVars, tempInputs, tempPasses, kluVars, passed >>

\* the temperature update binds the states of the instance again
TempInstance_Rebinds ==
    /\ pc = "OSDItemp"
    /\ loc.i >= 1
    /\ LET id == <<loc.m, loc.i>> IN
       \E info \in InitInfos, flags \in FlagChoices(inst[id].collapsed) :
         /\ res' = handle_init_info(info)
         /\ inst' = [inst EXCEPT ![id].collapsed = flags, ![id].GENstate = states]
         /\ states' = states + NumStates(descr)
         /\ passed' = [passed EXCEPT ![id].temp =
                          << TempEffectiveTemp(CKTtemp, extra[id]),
                             TempConnectedTerminals(descr, inst[id].terminals) >>]
         /\ loc' = NextInstance(loc.m, loc.i)
    /\ UNCHANGED << descr, netlist, ckt_nodes, prev_CKTlastNode, matrix,
                    pc, node_ids, ret, phase, s0, modRes, instRes, allocLog, eltLog,
                    order, aborted, relLog, collapseVars, handleVars, tempInputs, tempPasses, kluVars >>

\* one iteration of OSDItemp's loop over the instances of a model
TempInstance ==
    /\ pc = "OSDItemp"
    /\ loc.i >= 1
    /\ LET id == <<loc.m, loc.i>> IN
       \E info \in InitInfos, flags \in FlagChoices(inst[id].collapsed) :
         /\ res' = handle_init_info(info)
         /\ inst' = [inst EXCEPT ![id].collapsed = flags]
         /\ passed' = [passed EXCEPT ![id].temp =
                          << TempEffectiveTemp(CKTtemp, extra[id]),
                             TempConnectedTerminals(descr, inst[id].terminals) >>]
         /\ loc' = NextInstance(loc.m, loc.i)
    /\ UNCHANGED << descr, netlist, ckt_nodes, prev_CKTlastNode, matrix, states,
                    pc, node_ids, ret, phase, s0, modRes, instRes, allocLog, eltLog,
                    order, aborted, relLog, collapseVars, handleVars, tempInputs, tempPasses, kluVars >>

TempReturn ==
    /\ pc = "OSDItemp"
    /\ loc.m > Len(netlist)
    /\ Returned("OSDItemp", res)
    /\ UNCHANGED << descr, netlist, inst, ckt_nodes, prev_CKTlastNode, matrix, states,
                    res, node_ids, phase, s0, modRes, instRes, allocLog, eltLog, order,
                    aborted, relLog, collapseVars, handleVars, tempInputs, tempPasses, kluVars, passed >>

\* ----------------------------------------------------------- OSDIunsetup
\* num >= prev_CKTlastNode->number instead of >
IsInternalNode_Inclusive(num) ==
    prev_CKTlastNode # 0 /\ num >= prev_CKTlastNode

\* whether unsetup deletes the node a node_mapping entry holds; num is
\* (int)node_mapping[i]
IsInternalNode(num) ==
    prev_CKTlastNode # 0 /\ num > prev_CKTlastNode

\* the node numbers unsetup hands to CKTdltNNum for an instance
Released(I) ==
    {I.node_mapping[i] :
        i \in {j \in DOMAIN I.node_mapping : IsInternalNode(I.node_mapping[j])}}

\* every call deletes the last node of the circuit instead of node num
DeleteNodes_Last(nodes, nums) ==
    {n \in nodes : Cardinality({m \in nodes : m > n}) >= Cardinality(nums)}

\* the circuit's nodes after CKTdltNNum was called for every num of nums
RECURSIVE DeleteNodes(_, _)
DeleteNodes(nodes, nums) ==
    IF nums = {} THEN nodes
    ELSE LET num == CHOOSE n \in nums : TRUE
         IN DeleteNodes(CKTdltNNum(nodes, num), nums \ {num})

\* memset(collapsed, 0, sizeof(bool) * descr->num_collapsible)
ResetCollapsed(I) ==
    [I EXCEPT !.collapsed = [k \in DOMAIN I.collapsed |-> FALSE]]

OSDIunsetup ==
    /\ pc = "idle"
    /\ phase \in {"Bound", "TemperatureUpdated", "Unbound"}
    /\ phase' = "Unbound"
    /\ inst' = [id \in DOMAIN inst |-> ResetCollapsed(inst[id])]
    /\ relLog' = [id \in DOMAIN inst |-> Released(inst[id])]
    /\ ckt_nodes' = DeleteNodes(ckt_nodes, UNION {Released(inst[id]) : id \in DOMAIN inst})
    /\ ret' = [op |-> "OSDIunsetup", status |-> "OK", prev |-> ret.op]
    /\ UNCHANGED << descr, netlist, prev_CKTlastNode, matrix, states, pc, loc, res,
                    node_ids, s0, modRes, instRes, allocLog, eltLog, order, aborted,
                    collapseVars, handleVars, tempInputs, tempPasses, kluVars, passed >>

\* setup once, then unsetup
Next ==
    \/ SetupBegin \/ SetupModel \/ SetupInstance \/ SetupReturn
    \/ OSDIunsetup

Spec == Init /\ [][Next]_vars


\* --------------------------------------------------------- setup and KLU
\* the instances in the order of the loops over the models and their instances
RECURSIVE IdSeqFrom(_, _)
IdSeqFrom(m, i) ==
    IF m > Len(netlist) THEN << >>
    ELSE IF i > netlist[m] THEN IdSeqFrom(m + 1, 1)
    ELSE << <<m, i>> >> \o IdSeqFrom(m, i + 1)

IdSeq == IdSeqFrom(1, 1)

\* OSDIbindCSC: the loops from the k-th instance on
RECURSIVE BindCSCFrom(_, _, _, _)
BindCSCFrom(k, insts, ptrs, bindings) ==
    IF k > Len(IdSeq) THEN [error |-> "OK", inst |-> insts, ptrs |-> ptrs]
    ELSE
      LET id == IdSeq[k]
          r  == init_matrix_klu(descr, insts[id].node_mapping, insts[id].jac,
                                ptrs[id], bindings)
          insts1 == [insts EXCEPT ![id].jac = r.jac]
          ptrs1  == [ptrs EXCEPT ![id] = r.ptrs]
      IN IF r.error # "OK" THEN [error |-> r.error, inst |-> insts1, ptrs |-> ptrs1]
         ELSE BindCSCFrom(k + 1, insts1, ptrs1, bindings)

\* the resistive addresses of every instance
ResistOf(insts) == [id \in DOMAIN insts |-> insts[id].jac.resist]

\* the KLU matrix exists and OSDIsetup is not running
KluReady == pc = "idle" /\ phase = "Bound" /\ klu.gen >= 1

\* the matrix is converted to (or reordered in) compressed columns after a
\* setup that returned OK, which builds its binding table anew; the table
\* holds the coefficients of the matrix, or all but one of them
KLUconvert ==
    /\ pc = "idle"
    /\ phase = "Bound"
    /\ ret.op = "OSDIsetup" => (ret.status = "OK" /\ aborted = << >>)
    /\ klu.gen >= 1 => klu.bound
    /\ klu.gen < MaxGen
    /\ \E tbl \in {matrix} \cup {matrix \ {rc} : rc \in matrix} :
          klu' = [klu EXCEPT !.gen = @ + 1, !.table = tbl, !.bound = FALSE]
    /\ UNCHANGED << descr, netlist, inst, ckt_nodes, prev_CKTlastNode, matrix, states,
                    pc, loc, res, node_ids, ret, phase, s0, modRes, instRes, allocLog,
                    eltLog, order, aborted, relLog, collapseVars, handleVars, tempInputs,
                    tempPasses, passed, matrix_ptrs >>

OSDIbindCSC ==
    /\ KluReady
    /\ LET r == BindCSCFrom(1, inst, matrix_ptrs, Bindings(klu)) IN
       /\ inst' = r.inst
       /\ matrix_ptrs' = r.ptrs
       /\ ret' = [op |-> "OSDIbindCSC", status |-> r.error, prev |-> ret.op]
       /\ klu' = IF r.error = "OK"
                 THEN [klu EXCEPT !.bound = TRUE, !.boundOnce = TRUE,
                                  !.stored = ResistOf(r.inst)]
                 ELSE klu
    /\ UNCHANGED << descr, netlist, ckt_nodes, prev_CKTlastNode, matrix, states,
                    pc, loc, res, node_ids, phase, s0, modRes, instRes, allocLog,
                    eltLog, order, aborted, relLog, collapseVars, handleVars, tempInputs,
                    tempPasses, passed >>

\* OSDIupdateCSC; OSDIbindCSCComplexToReal and OSDIbindCSCComplex call it with
\* complex = false and complex = true
OSDIupdateCSC(complex) ==
    /\ KluReady
    /\ inst' = [id \in DOMAIN inst |->
                  [inst[id] EXCEPT !.jac =
                      update_matrix_klu(descr, inst[id].node_mapping, inst[id].jac,
                                        matrix_ptrs[id], complex)]]
    /\ ret' = [op |-> IF complex THEN "OSDIbindCSCComplex"
                      ELSE "OSDIbindCSCComplexToReal",
               status |-> "OK", prev |-> ret.op]
    /\ UNCHANGED << descr, netlist, ckt_nodes, prev_CKTlastNode, matrix, states,
                    pc, loc, res, node_ids, phase, s0, modRes, instRes, allocLog,
                    eltLog, order, aborted, relLog, collapseVars, handleVars, tempInputs,
                    tempPasses, passed, kluVars >>

\* setup once, then the KLU matrix is built, bound, rebound and reordered
NextKLU ==
    \/ SetupBegin \/ SetupModel \/ SetupInstance \/ SetupReturn
    \/ KLUconvert
    \/ OSDIbindCSC
    \/ \E complex \in BOOLEAN : OSDIupdateCSC(complex)

SpecKLU == Init /\ [][NextKLU]_vars

\* ------------------------------------------- setup and temperature updates
\* the instance parameters: temp (350 K) and dt (5 K), each given or not; a
\* parameter that is not given still holds its value
ExtraChoices ==
    {ExtraInstData(tg, 350, dg, 5) : tg \in BOOLEAN, dg \in BOOLEAN}

InitTemp ==
    /\ InitSetup
    /\ CKTtemp = 300
    /\ \E ex \in ExtraChoices : extra = NoLog(netlist, ex)

\* setup once, then any number of temperature updates
NextTemp ==
    \/ SetupBegin \/ SetupModel \/ SetupInstance \/ SetupReturn
    \/ TempBegin \/ TempModel \/ TempInstance \/ TempReturn

SpecTemp == InitTemp /\ [][NextTemp]_vars

\* ------------------------------------------------ collapse_nodes on its own
\* collapse_nodes run one collapsible pair at a time, for every descriptor of
\* up to MaxNodes nodes and MaxPairs collapsible pairs, every number of
\* connected terminals and every combination of executed flags

MainIdleAt(p) ==
    /\ descr = DescrA
    /\ netlist = << 0 >>
    /\ inst = NoLog(<< 0 >>, 0)
    /\ ckt_nodes = {0}
    /\ prev_CKTlastNode = 0
    /\ matrix = {}
    /\ states = 0
    /\ pc = p
    /\ loc = [m |-> 0, i |-> 0]
    /\ res = "OK"
    /\ node_ids = << >>
    /\ ret = [op |-> "none", status |-> "OK", prev |-> "none"]
    /\ phase = "Uninitialized"
    /\ s0 = 0
    /\ modRes = << "none" >>
    /\ instRes = NoLog(<< 0 >>, "none")
    /\ allocLog = NoLog(<< 0 >>, << >>)
    /\ eltLog = NoLog(<< 0 >>, << >>)
    /\ order = << >>
    /\ aborted = << >>
    /\ relLog = NoLog(<< 0 >>, {})
    /\ CKTtemp = 300
    /\ extra = NoLog(<< 0 >>, NoExtra)
    /\ passed = NoLog(<< 0 >>, NotCalled)
    /\ tempPasses = 0
    /\ KluIdle
    /\ matrix_ptrs = NoLog(<< 0 >>, << >>)

MainIdle == MainIdleAt("collapse_nodes")

CollapsiblePairs(n) ==
    {Pair(a, b) : a \in 0..(n - 1), b \in (0..(n - 1)) \cup {UINT32_MAX}}
      \ {Pair(a, a) : a \in 0..(n - 1)}

CollapseDescriptors ==
    {Descriptor(n, [i \in 1..n |-> Node("n", FALSE, UINT32_MAX)], c, << >>, 0) :
        n \in 1..MaxNodes,
        c \in UNION {[1..k -> CollapsiblePairs(MaxNodes)] : k \in 0..MaxPairs}}

\* the descriptors whose pairs name nodes the descriptor has
WellFormed(d) ==
    \A i \in 0..(d.num_collapsible - 1) :
        d.collapsible[i] \in CollapsiblePairs(d.num_nodes)

InitCollapse ==
    /\ MainIdle
    /\ HandleIdle
    /\ cDescr \in {d \in CollapseDescriptors : WellFormed(d)}
    /\ cCt \in 0..cDescr.num_terminals
    /\ cCollapsed \in [0..(cDescr.num_collapsible - 1) -> BOOLEAN]
    /\ cSt = CollapseStart(cDescr)
    /\ cI = 0
    /\ cMerged = 0
    /\ cSkipped = 0

\* the value a side of a pair is mapped to (the ground sentinel maps to itself)
Mapped(nm, n) == IF n = UINT32_MAX THEN UINT32_MAX ELSE nm[n]

\* pair i is executed, passes the terminal guard and joins two nodes that
\* are not yet mapped to the same node
MergesDistinct(d, collapsed, ct, nm, i) ==
    /\ collapsed[i]
    /\ ~TerminalSkip(nm, d.collapsible[i].node_1, d.collapsible[i].node_2, ct)
    /\ Mapped(nm, d.collapsible[i].node_1) # Mapped(nm, d.collapsible[i].node_2)

\* pair i is executed and stopped by the terminal guard
SkipsTerminal(d, collapsed, ct, nm, i) ==
    /\ collapsed[i]
    /\ TerminalSkip(nm, d.collapsible[i].node_1, d.collapsible[i].node_2, ct)

\* one iteration of the loop over the collapsible pairs
CollapseLoop ==
    /\ pc = "collapse_nodes"
    /\ cI < cDescr.num_collapsible
    /\ cSt' = CollapseIter(cDescr, cCollapsed, cCt, cSt, cI)
    /\ cI' = cI + 1
    /\ cMerged' = cMerged +
          (IF MergesDistinct(cDescr, cCollapsed, cCt, cSt.node_mapping, cI) THEN 1 ELSE 0)
    /\ cSkipped' = cSkipped +
          (IF SkipsTerminal(cDescr, cCollapsed, cCt, cSt.node_mapping, cI) THEN 1 ELSE 0)
    /\ UNCHANGED << mainVars, cDescr, cCt, cCollapsed, handleVars >>

\* return num_nodes
CollapseReturn ==
    /\ pc = "collapse_nodes"
    /\ cI = cDescr.num_collapsible
    /\ pc' = "idle"
    /\ UNCHANGED << descr, netlist, inst, ckt_nodes, prev_CKTlastNode, matrix, states,
                    loc, res, node_ids, ret, phase, s0, modRes, instRes, allocLog, eltLog,
                    order, aborted, relLog, collapseVars, handleVars, tempInputs, tempPasses, kluVars, passed >>

NextCollapse == CollapseLoop \/ CollapseReturn

SpecCollapse == InitCollapse /\ [][NextCollapse]_vars

\* --------------------------------------------- handle_init_info on its own
\* handle_init_info called with every OsdiInitInfo of up to MaxErrors errors
\* (out-of-bounds errors of each parameter, and an error of another code)
\* and every combination of the flags
InitErrors ==
    {InitError(INIT_ERR_OUT_OF_BOUNDS, q) : q \in 0..(MaxParams - 1)}
      \cup {InitError(INIT_ERR_UNKNOWN, 0)}

HandleInputs ==
    {InitInfo(f, e) :
        f \in SUBSET {EVAL_RET_FLAG_FATAL, EVAL_RET_FLAG_FINISH, EVAL_RET_FLAG_OTHER},
        e \in UNION {[1..n -> InitErrors] : n \in 0..MaxErrors}}

InitHandle ==
    /\ MainIdleAt("handle_init_info")
    /\ CollapseIdle
    /\ hInfo \in HandleInputs
    /\ hRes = "none"
    /\ hOut = << >>
    /\ errMsg = 0

\* the call, from entry to return
HandleInitInfo ==
    /\ pc = "handle_init_info"
    /\ pc' = "idle"
    /\ hRes' = handle_init_info(hInfo)
    /\ hOut' = IF hRes' = "E_PRIVATE" THEN Printed(hInfo) ELSE << >>
    /\ errMsg' = IF hRes' = "E_PRIVATE" THEN hInfo.num_errors ELSE errMsg
    /\ UNCHANGED << descr, netlist, inst, ckt_nodes, prev_CKTlastNode, matrix, states,
                    loc, res, node_ids, ret, phase, s0, modRes, instRes, allocLog, eltLog,
                    order, aborted, relLog, collapseVars, tempInputs, tempPasses, kluVars,
                    passed, hInfo >>

NextHandle == HandleInitInfo

SpecHandle == InitHandle /\ [][NextHandle]_vars

\* handle_init_info has returned
HandleDone == pc = "idle" /\ hRes # "none"

\* C21: handle_init_info returns E_PANIC whenever the fatal or the finish
\* flag is set, whatever the list of errors holds; otherwise OK when the list
\* is empty; otherwise E_PRIVATE, also when every error has an unknown code
C21_Classification ==
    HandleDone =>
        hRes = IF EVAL_RET_FLAG_FATAL \in hInfo.flags \/ EVAL_RET_FLAG_FINISH \in hInfo.flags
               THEN "E_PANIC"
               ELSE IF hInfo.errors = << >> THEN "OK"
               ELSE "E_PRIVATE"

\* it returned E_PANIC for a flag that came with a list of errors
C21_Witness ==
    /\ HandleDone
    /\ hInfo.flags = {EVAL_RET_FLAG_FINISH}
    /\ hInfo.errors # << >>
    /\ hRes = "E_PANIC"

\* it returned E_PRIVATE for a list of errors of unknown code only
C21_WitnessUnknown ==
    /\ HandleDone
    /\ hInfo.flags = {EVAL_RET_FLAG_OTHER}
    /\ hInfo.errors # << >>
    /\ \A i \in DOMAIN hInfo.errors : hInfo.errors[i].code = INIT_ERR_UNKNOWN
    /\ hRes = "E_PRIVATE"
    /\ hOut = Printed(hInfo)

\* it returned OK for no error, whatever other flag is set
C21_WitnessOK ==
    /\ HandleDone
    /\ hInfo.flags = {EVAL_RET_FLAG_OTHER}
    /\ hInfo.errors = << >>
    /\ hRes = "OK"

\* collapse_nodes has returned
CollapseDone == pc = "idle" /\ cI = cDescr.num_collapsible /\ phase = "Uninitialized"
                   /\ netlist = << 0 >>

\* the values of the node mapping other than the ground sentinel
Survivors(nm) == Range(nm) \ {UINT32_MAX}

\* C6: after collapse_nodes the returned count is num_nodes minus the number
\* of collapses that merged two distinct nodes, and the values of the node
\* mapping other than the sentinel are exactly 0 .. count - 1
C6_CountAndCompaction ==
    CollapseDone =>
        /\ cSt.num_nodes = cDescr.num_nodes - cMerged
        /\ Survivors(cSt.node_mapping) = 0..(cSt.num_nodes - 1)

\* the first half of C6 alone, and the second half alone
C6_CountOnly == CollapseDone => cSt.num_nodes = cDescr.num_nodes - cMerged
C6_CompactionOnly ==
    CollapseDone => Survivors(cSt.node_mapping) = 0..(cSt.num_nodes - 1)

\* every connected terminal is still mapped to itself
TerminalsKept == \A i \in 0..(cCt - 1) : cSt.node_mapping[i] = i

\* the next pair is executed and its two sides are both mapped to terminals
BothTerminals ==
    /\ cI < cDescr.num_collapsible
    /\ cCollapsed[cI]
    /\ LET a == Mapped(cSt.node_mapping, cDescr.collapsible[cI].node_1)
           b == Mapped(cSt.node_mapping, cDescr.collapsible[cI].node_2)
       IN a # UINT32_MAX /\ b # UINT32_MAX /\ U32Lt(a, cCt) /\ U32Lt(b, cCt)

\* the next pair is executed, one of its sides is mapped to a terminal and
\* the other is ground or mapped to ground
TerminalToGround ==
    /\ cI < cDescr.num_collapsible
    /\ cCollapsed[cI]
    /\ LET a == Mapped(cSt.node_mapping, cDescr.collapsible[cI].node_1)
           b == Mapped(cSt.node_mapping, cDescr.collapsible[cI].node_2)
       IN \/ a # UINT32_MAX /\ U32Lt(a, cCt) /\ b = UINT32_MAX
          \/ b # UINT32_MAX /\ U32Lt(b, cCt) /\ a = UINT32_MAX

\* C7: collapse_nodes keeps every connected terminal mapped to itself, and an
\* executed pair whose sides are both mapped to terminals, or that joins a
\* terminal and ground, changes neither the mapping nor the count
C7_TerminalsNeverCollapsed ==
    [][/\ TerminalsKept'
       /\ (BothTerminals \/ TerminalToGround) => cSt' = cSt]_vars

\* the parts of C7
C7_TerminalsKept == [][TerminalsKept']_vars
C7_BothTerminalsSkipped == [][BothTerminals => cSt' = cSt]_vars
C7_TerminalToGroundSkipped == [][TerminalToGround => cSt' = cSt]_vars


\* the values collapse_nodes replaces (from) and puts in their place (to) in
\* the iteration for pair i: the two sides after the swap, looked up in the
\* node mapping
CollapseEnds(d, nm, i) ==
    LET from0 == d.collapsible[i].node_1
        to0   == d.collapsible[i].node_2
        swap  == to0 # UINT32_MAX /\ U32Lt(nm[from0], nm[to0])
        from1 == IF swap THEN to0 ELSE from0
        to1   == IF swap THEN from0 ELSE to0
    IN [from |-> nm[from1], to |-> IF to1 # UINT32_MAX THEN nm[to1] ELSE to1]

\* the next pair is executed and passes the terminal guard
StepCollapses ==
    /\ cI < cDescr.num_collapsible
    /\ cCollapsed[cI]
    /\ ~TerminalSkip(cSt.node_mapping, cDescr.collapsible[cI].node_1,
                     cDescr.collapsible[cI].node_2, cCt)

\* local node n is mapped to a node that the next step leaves in place: it is
\* not grounded and is not the node the step replaces by another one
SurvivesStep(n) ==
    LET ends == CollapseEnds(cDescr, cSt.node_mapping, cI)
        v    == cSt.node_mapping[n]
    IN /\ v # UINT32_MAX
       /\ v = ends.from => ends.to = ends.from

\* C11: a collapse step keeps the order of the nodes it leaves in place: for
\* two local nodes that survive the step, if a's value was smaller than b's
\* before the step it is still strictly smaller after it
C11_CompactionKeepsOrder ==
    [][StepCollapses =>
         \A a, b \in DOMAIN cSt.node_mapping :
            (/\ SurvivesStep(a)
             /\ SurvivesStep(b)
             /\ U32Lt(cSt.node_mapping[a], cSt.node_mapping[b]))
               => U32Lt(cSt'.node_mapping[a], cSt'.node_mapping[b])]_vars

\* the same for the steps whose two sides are mapped to different values
C11_KeepsOrderUnlessRedundant ==
    [][(StepCollapses /\ LET ends == CollapseEnds(cDescr, cSt.node_mapping, cI)
                         IN ends.from # ends.to) =>
         \A a, b \in DOMAIN cSt.node_mapping :
            (/\ SurvivesStep(a)
             /\ SurvivesStep(b)
             /\ U32Lt(cSt.node_mapping[a], cSt.node_mapping[b]))
               => U32Lt(cSt'.node_mapping[a], cSt'.node_mapping[b])]_vars

\* C15: a local node that is mapped to the ground sentinel stays mapped to it
\* through every later step of collapse_nodes
C15_SentinelPreserved ==
    [][\A n \in DOMAIN cSt.node_mapping :
          cSt.node_mapping[n] = UINT32_MAX => cSt'.node_mapping[n] = UINT32_MAX]_vars

\* ------------------------------------------------------- claims about Spec
\* OSDIsetup has returned and nothing was called since
SetupReturned == pc = "idle" /\ phase = "Bound" /\ ret.op = "OSDIsetup"

\* the pass runs or has returned (and unsetup has not run since)
InSetupPass == phase = "Bound"

Models == 1..Len(netlist)
InstancesOf(m) == {id \in Ids(netlist) : id[1] = m}

\* id1 is processed before id2
Before(id1, id2) == id1[1] < id2[1] \/ (id1[1] = id2[1] /\ id1[2] < id2[2])

\* the instance is as it was before the pass
Untouched(id) ==
    /\ inst[id] = NewInstance(descr, inst[id].terminals)
    /\ allocLog[id] = << >>
    /\ \A k \in 1..Len(order) : order[k] # id

\* C1: when setup_model of a model returns the fatal or the finish flag,
\* setup returns E_PANIC and processes no later model
C1_FatalAbortsSetup ==
    InSetupPass =>
      \A m \in Models :
        modRes[m] = "E_PANIC" =>
          /\ \A m2 \in Models : m2 > m =>
                /\ modRes[m2] = "none"
                /\ \A id \in InstancesOf(m2) : instRes[id] = "none" /\ Untouched(id)
          /\ SetupReturned => ret.status = "E_PANIC"

\* a call of the pass returned a non-fatal error list
SawPrivate ==
    \/ \E m \in Models : modRes[m] = "E_PRIVATE"
    \/ \E id \in Ids(netlist) : instRes[id] = "E_PRIVATE"

\* a call of the pass returned the fatal or the finish flag
SawPanic ==
    \/ \E m \in Models : modRes[m] = "E_PANIC"
    \/ \E id \in Ids(netlist) : instRes[id] = "E_PANIC"

\* C2: when a setup_model or setup_instance call of the pass returned a
\* non-fatal error list and no fatal or resource error occurred, setup
\* returns E_PRIVATE
C2_ErrorsReturnPrivate ==
    (SetupReturned /\ SawPrivate /\ ~SawPanic /\ aborted = << >>)
        => ret.status = "E_PRIVATE"

\* the instance went through the whole loop body: its node mapping holds
\* circuit nodes, its Jacobian pointers hold the coefficients of the mapped
\* (equation, unknown) pairs, and it has a state base
FullySetUp(id) ==
    /\ \E k \in 1..Len(order) : order[k] = id
    /\ \A i \in 0..(descr.num_nodes - 1) : inst[id].node_mapping[i] \in ckt_nodes
    /\ \A e \in 0..(descr.num_jacobian_entries - 1) :
          inst[id].jac.resist[e] =
             SMPmakeElt(inst[id].node_mapping[descr.jacobian_entries[e].nodes.node_1],
                        inst[id].node_mapping[descr.jacobian_entries[e].nodes.node_2])
    /\ inst[id].GENstate >= s0
    /\ inst[id].GENstate < states \/ NumStates(descr) = 0

\* C3: when setup_model of M1 returned only non-fatal errors, none of M1's
\* instances is set up, every later model is processed, and each instance of
\* a later model whose own calls succeeded is fully set up
C3_ValidationErrorSkipsOnlyItsModel ==
    (SetupReturned /\ aborted = << >>) =>
      \A m1 \in Models :
        modRes[m1] = "E_PRIVATE" =>
          /\ \A id \in InstancesOf(m1) : instRes[id] = "none" /\ Untouched(id)
          /\ \A m2 \in Models : m2 > m1 =>
                /\ modRes[m2] # "none"
                /\ modRes[m2] = "OK" =>
                      \A id \in InstancesOf(m2) :
                          /\ instRes[id] # "none"
                          /\ instRes[id] = "OK" => FullySetUp(id)

C3_Witness ==
    /\ SetupReturned
    /\ Len(netlist) = 2
    /\ modRes[1] = "E_PRIVATE"
    /\ netlist[1] >= 1
    /\ netlist[2] >= 1
    /\ instRes[<<2, 1>>] = "OK"
    /\ FullySetUp(<<2, 1>>)
    /\ \E i \in 0..(descr.num_nodes - 1) :
          inst[<<2, 1>>].node_mapping[i] > prev_CKTlastNode

\* the state slots one instance takes: the declared states and two for
\* every node with a reactive residual
SlotsPerInstance ==
    descr.num_states
      + 2 * Cardinality({i \in DOMAIN descr.nodes :
                            descr.nodes[i].react_residual_off # UINT32_MAX})

\* C4: when node creation or SMPmakeElt fails for an instance, setup returns
\* that error at once, processes no later instance or model, and does not
\* advance the state counter for the failing instance
C4_ResourceFailureAborts ==
    (InSetupPass /\ aborted # << >>) =>
      LET id == aborted[1] IN
      /\ SetupReturned
      /\ ret.status = "E_NOMEM"
      /\ \A id2 \in Ids(netlist) :
            Before(id, id2) => instRes[id2] = "none" /\ Untouched(id2)
      /\ \A m \in Models : m > id[1] => modRes[m] = "none"
      /\ states = s0 + SlotsPerInstance * Len(order)
      /\ \A k \in 1..Len(order) : order[k] # id
      /\ inst[id].GENstate = 0

\* SMPmakeElt failed after it had returned a coefficient for the first
\* instance of two
C4_Witness ==
    /\ SetupReturned
    /\ ret.status = "E_NOMEM"
    /\ aborted = << <<1, 1>> >>
    /\ \E id2 \in Ids(netlist) : Before(aborted[1], id2)
    /\ inst[aborted[1]].jac.resist[0] # NULL
    /\ states = s0

\* node creation failed for the second instance
C4_WitnessNode ==
    /\ SetupReturned
    /\ ret.status = "E_NOMEM"
    /\ aborted # << >>
    /\ Len(order) = 1
    /\ allocLog[aborted[1]] # << >>
    /\ inst[aborted[1]].jac.resist[0] = NULL
    /\ states = s0 + SlotsPerInstance

\* the numbers of the nodes created for an instance
Allocated(id) == {allocLog[id][k].number : k \in 1..Len(allocLog[id])}

\* the connected terminals of an instance
TerminalNodes(id) ==
    {inst[id].terminals[j] :
        j \in 0..(ConnectedTerminals(descr, inst[id].terminals) - 1)}

\* the nodes that survive the collapsing the instance's flags ask for
SurvivingCount(id) ==
    Cardinality(Survivors(collapse_nodes(descr, inst[id].collapsed,
                    ConnectedTerminals(descr, inst[id].terminals)).node_mapping))

\* C5: for every instance that was set up, every entry of its node mapping
\* is ground, one of its connected terminals or a node created for it in
\* this pass; every node created for it is in its mapping; no created node
\* is shared by two instances; and as many nodes were created as survive
\* the collapsing, less the connected terminals
C5_MappingFromAllocator ==
    InSetupPass =>
      \A k \in 1..Len(order) :
        LET id == order[k] IN
        /\ Range(inst[id].node_mapping) \subseteq
              {0} \cup TerminalNodes(id) \cup Allocated(id)
        /\ Allocated(id) \subseteq Range(inst[id].node_mapping)
        /\ \A id2 \in Ids(netlist) : id2 # id => Allocated(id) \cap Allocated(id2) = {}
        /\ Len(allocLog[id]) =
              SurvivingCount(id) - ConnectedTerminals(descr, inst[id].terminals)

\* the parts of C5
C5_EntriesKnown ==
    InSetupPass =>
      \A k \in 1..Len(order) :
        Range(inst[order[k]].node_mapping) \subseteq
            {0} \cup TerminalNodes(order[k]) \cup Allocated(order[k])
C5_NoOrphan ==
    InSetupPass =>
      \A k \in 1..Len(order) :
        Allocated(order[k]) \subseteq Range(inst[order[k]].node_mapping)
C5_AllocationCount ==
    InSetupPass =>
      \A k \in 1..Len(order) :
        Len(allocLog[order[k]]) =
           SurvivingCount(order[k]) - ConnectedTerminals(descr, inst[order[k]].terminals)

\* C8: each instance that was set up has the state base the counter had
\* when it was processed, the counter advances by the declared states plus
\* two for every node with a reactive residual, the ranges of the instances
\* are disjoint and make up, in processing order, [s0, counter); an
\* instance that was skipped takes no slots
StateRange(id) == inst[id].GENstate .. (inst[id].GENstate + SlotsPerInstance - 1)

C8_StateRanges ==
    InSetupPass =>
      /\ \A k \in 1..Len(order) :
            /\ inst[order[k]].GENstate = s0 + SlotsPerInstance * (k - 1)
            /\ \A i \in 0..(descr.num_states - 1) :
                  inst[order[k]].state_idx[i] = inst[order[k]].GENstate + i
      /\ states = s0 + SlotsPerInstance * Len(order)
      /\ \A j, k \in 1..Len(order) :
            j # k => StateRange(order[j]) \cap StateRange(order[k]) = {}
      /\ UNION {StateRange(order[k]) : k \in 1..Len(order)} = s0..(states - 1)

C8_Witness ==
    /\ SetupReturned
    /\ Len(order) = 2
    /\ SlotsPerInstance > descr.num_states
    /\ s0 > 0
    /\ inst[order[2]].GENstate = s0 + SlotsPerInstance

C8_WitnessSkipped ==
    /\ SetupReturned
    /\ Len(order) = 1
    /\ order[1][2] = 2
    /\ instRes[<<order[1][1], 1>>] = "E_PRIVATE"
    /\ states = s0 + SlotsPerInstance


\* OSDIunsetup has returned and nothing was called since
UnsetupReturned == pc = "idle" /\ ret.op = "OSDIunsetup"

FlagsCleared(id) == \A k \in DOMAIN inst[id].collapsed : ~inst[id].collapsed[k]

\* the entries of the instance's node mapping above the last external node
AboveBoundary(id) == {n \in Range(inst[id].node_mapping) : n > prev_CKTlastNode}

\* C9 as stated: unsetup clears every collapse flag of every instance and
\* releases exactly the nodes of its mapping above the last external node of
\* the time setup began, for every value of that boundary, 0 included
C9_ReleasesAboveBoundary ==
    UnsetupReturned =>
      \A id \in Ids(netlist) :
        /\ FlagsCleared(id)
        /\ relLog[id] = AboveBoundary(id)
        /\ ckt_nodes \cap AboveBoundary(id) = {}
        /\ 0..prev_CKTlastNode \subseteq ckt_nodes

\* C9 as amended: unsetup clears every collapse flag of every instance; when
\* the boundary is not 0 it releases exactly the nodes of the mapping above
\* the boundary, and when the boundary is 0 it releases no node at all
C9_ReleasesAboveNonzeroBoundary ==
    UnsetupReturned =>
      \A id \in Ids(netlist) :
        /\ FlagsCleared(id)
        /\ relLog[id] = IF prev_CKTlastNode = 0 THEN {} ELSE AboveBoundary(id)
        /\ ckt_nodes \cap relLog[id] = {}
        /\ 0..prev_CKTlastNode \subseteq ckt_nodes

\* unsetup after a setup that created nodes for an instance with a terminal
\* at the boundary
C9_Witness ==
    /\ UnsetupReturned
    /\ ret.prev = "OSDIsetup"
    /\ prev_CKTlastNode # 0
    /\ \E id \in Ids(netlist) :
          /\ relLog[id] # {}
          /\ prev_CKTlastNode \in Range(inst[id].node_mapping)

\* unsetup with boundary 0 after a setup that created nodes
C9_WitnessZero ==
    /\ UnsetupReturned
    /\ prev_CKTlastNode = 0
    /\ \E id \in Ids(netlist) : AboveBoundary(id) # {} /\ relLog[id] = {}

\* C10: unsetup returns OK, and a call of unsetup right after a call of
\* unsetup changes neither the circuit's nodes nor the collapse flags nor the
\* node mappings
C10_UnsetupIdempotent ==
    [][OSDIunsetup =>
         /\ ret'.status = "OK"
         /\ UnsetupReturned => (ckt_nodes' = ckt_nodes /\ inst' = inst)]_vars

\* unsetup was called twice in a row for an instance two of whose local
\* nodes are mapped to the same released node
C10_Witness ==
    /\ UnsetupReturned
    /\ ret.prev = "OSDIunsetup"
    /\ ret.status = "OK"
    /\ \E id \in Ids(netlist) :
         \E i, j \in DOMAIN inst[id].node_mapping :
            /\ i # j
            /\ inst[id].node_mapping[i] = inst[id].node_mapping[j]
            /\ inst[id].node_mapping[i] \in relLog[id]
            /\ inst[id].node_mapping[i] \notin ckt_nodes


\* the global (equation, unknown) pair of Jacobian entry e of an instance
GlobalPair(id, e) ==
    << inst[id].node_mapping[descr.jacobian_entries[e].nodes.node_1],
       inst[id].node_mapping[descr.jacobian_entries[e].nodes.node_2] >>

JacobianEntries == 0..(descr.num_jacobian_entries - 1)

\* C12: for every instance that was set up, running init_matrix again stores
\* the address it already holds for every Jacobian entry and adds no
\* coefficient, and two entries with the same global (equation, unknown)
\* pair hold the same address
C12_JacobianBindingIdempotent ==
    InSetupPass =>
      \A k \in 1..Len(order) :
        LET id    == order[k]
            again == init_matrix(descr, inst[id].node_mapping, inst[id].jac, matrix, -1)
        IN /\ again.error = "OK"
           /\ again.jac = inst[id].jac
           /\ again.matrix = matrix
           /\ \A e1, e2 \in JacobianEntries :
                 GlobalPair(id, e1) = GlobalPair(id, e2)
                    => inst[id].jac.resist[e1] = inst[id].jac.resist[e2]

\* an instance was set up with two Jacobian entries on the same coefficient
\* that is not in the ground row or column
C12_Witness ==
    /\ SetupReturned
    /\ \E k \in 1..Len(order) : \E e1, e2 \in JacobianEntries :
          /\ e1 # e2
          /\ descr.jacobian_entries[e1].nodes # descr.jacobian_entries[e2].nodes
          /\ GlobalPair(order[k], e1) = GlobalPair(order[k], e2)
          /\ GlobalPair(order[k], e1)[1] # 0
          /\ GlobalPair(order[k], e1)[2] # 0
          /\ inst[order[k]].jac.resist[e1] = inst[order[k]].jac.resist[e2]
          /\ inst[order[k]].jac.resist[e1] # NULL

\* C13: init_matrix asks the matrix for no coefficient in row 0 or column 0
C13_GroundEntriesNotRequested ==
    InSetupPass =>
      \A id \in Ids(netlist) : \A k \in 1..Len(eltLog[id]) :
          eltLog[id][k][1] # 0 /\ eltLog[id][k][2] # 0

\* the matrix holds no coefficient in row 0 or column 0
C13_GroundEntriesNotMaterialized ==
    \A rc \in matrix : rc[1] # 0 /\ rc[2] # 0

\* C16: every node created for an instance that was set up was created by
\* the allocator of the kind, and with the name, of a local node of the
\* descriptor that is mapped to the new node
C16_CreatedAsDeclared ==
    InSetupPass =>
      \A k \in 1..Len(order) : \A a \in 1..Len(allocLog[order[k]]) :
        LET e == allocLog[order[k]][a] IN
        \E n \in 0..(descr.num_nodes - 1) :
           /\ inst[order[k]].node_mapping[n] = e.number
           /\ descr.nodes[n].name = e.name
           /\ e.kind = IF descr.nodes[n].is_flow THEN "CKTmkCur" ELSE "CKTmkVolt"


\* ---------------------------------------------------- claims about SpecTemp
\* the step belongs to a call of OSDItemp
TempStep == pc = "OSDItemp" \/ pc' = "OSDItemp"

\* the binding of an instance: node mapping, Jacobian addresses, states
Binding(I) ==
    [node_mapping |-> I.node_mapping, jac |-> I.jac, GENstate |-> I.GENstate,
     state_idx |-> I.state_idx]

\* C14: no step of OSDItemp creates or deletes a node, asks the matrix for a
\* coefficient, or changes an instance's node mapping, Jacobian addresses or
\* state base, or the state counter
C14_TempKeepsTopology ==
    [][TempStep =>
         /\ ckt_nodes' = ckt_nodes
         /\ allocLog' = allocLog
         /\ relLog' = relLog
         /\ matrix' = matrix
         /\ eltLog' = eltLog
         /\ states' = states
         /\ \A id \in Ids(netlist) : Binding(inst'[id]) = Binding(inst[id])]_vars

\* OSDItemp has returned after it called setup_instance for an instance that
\* setup gave a node of its own, a coefficient and a state base
C14_Witness ==
    /\ pc = "idle"
    /\ ret.op = "OSDItemp"
    /\ \E k \in 1..Len(order) :
          /\ passed[order[k]].temp # << >>
          /\ allocLog[order[k]] # << >>
          /\ \E e \in JacobianEntries :
                GlobalPair(order[k], e)[1] # 0 /\ GlobalPair(order[k], e)[2] # 0
          /\ states > inst[order[k]].GENstate
          /\ \E c \in DOMAIN inst[order[k]].collapsed : inst[order[k]].collapsed[c]

\* the temperature the claim describes: the circuit's, replaced by the
\* instance's when given, plus the instance's dt when given
ExpectedTemp(id) ==
    (IF extra[id].temp_given THEN extra[id].temp ELSE CKTtemp)
       + (IF extra[id].dt_given THEN extra[id].dt ELSE 0)

\* the number of terminals before the first one that is not connected
ExpectedTerminals(id) ==
    Cardinality({j \in 0..(descr.num_terminals - 1) :
                    \A i \in 0..j : inst[id].terminals[i] # -1})

\* C20: setup_instance is called, by OSDIsetup and by OSDItemp, with the
\* circuit temperature, replaced by the instance's temp when given and
\* increased by the instance's dt when given, and with the same number of
\* connected terminals
C20_EffectiveTemperature ==
    \A id \in Ids(netlist) :
       /\ passed[id].setup # << >> =>
             passed[id].setup = << ExpectedTemp(id), ExpectedTerminals(id) >>
       /\ passed[id].temp # << >> =>
             passed[id].temp = << ExpectedTemp(id), ExpectedTerminals(id) >>
       /\ (passed[id].setup # << >> /\ passed[id].temp # << >>) =>
             passed[id].setup = passed[id].temp

\* both functions have called setup_instance for an instance with temp and
\* dt given and an open terminal
C20_Witness ==
    \E id \in Ids(netlist) :
       /\ extra[id].temp_given
       /\ extra[id].dt_given
       /\ passed[id].setup # << >>
       /\ passed[id].temp = passed[id].setup
       /\ passed[id].temp[1] = extra[id].temp + extra[id].dt
       /\ passed[id].temp[1] # CKTtemp + extra[id].dt
       /\ passed[id].temp[2] < descr.num_terminals

\* the same with dt only
C20_WitnessDtOnly ==
    \E id \in Ids(netlist) :
       /\ ~extra[id].temp_given
       /\ extra[id].dt_given
       /\ passed[id].setup # << >>
       /\ passed[id].temp = passed[id].setup
       /\ passed[id].temp[1] = CKTtemp + extra[id].dt


\* ----------------------------------------------------- claims about SpecKLU
\* neither the equation nor the unknown of Jacobian entry e is ground
NonGround(id, e) == GlobalPair(id, e)[1] # 0 /\ GlobalPair(id, e)[2] # 0

\* the binding table has an element for the address
InTable(ptr) ==
    /\ ptr.mem = "COO"
    /\ ptr.off = 0
    /\ << ptr.row, ptr.col >> \in klu.table

\* the element the binding table pairs with a linked-list address
Resolve(ptr) == BindElement(klu.gen, ptr.row, ptr.col)

\* the address stored for a non-ground entry is not in the table
Absent(id, e) == NonGround(id, e) /\ ~InTable(inst[id].jac.resist[e])

\* OSDIbindCSC gets to entry e of the instance and past it
Processed(id, e) ==
    \A id2 \in Ids(netlist) : \A e2 \in JacobianEntries :
        (Before(id2, id) \/ (id2 = id /\ e2 <= e)) => ~Absent(id2, e2)

\* entry e of the instance is bound to the table's element for its address
BoundByStep(id, e) ==
    LET b == Resolve(inst[id].jac.resist[e]) IN
    /\ inst'[id].jac.resist[e] = b.CSC
    /\ inst'[id].jac.react[e] =
          IF descr.jacobian_entries[e].react_ptr_off # UINT32_MAX
          THEN [b.CSC_Complex EXCEPT !.off = 1]
          ELSE inst[id].jac.react[e]
    /\ matrix_ptrs'[id][2 * e] = b.CSC
    /\ matrix_ptrs'[id][2 * e + 1] = b.CSC_Complex

\* entry e of the instance is as before the step
SameEntry(id, e) ==
    /\ inst'[id].jac.resist[e] = inst[id].jac.resist[e]
    /\ inst'[id].jac.react[e] = inst[id].jac.react[e]
    /\ matrix_ptrs'[id][2 * e] = matrix_ptrs[id][2 * e]
    /\ matrix_ptrs'[id][2 * e + 1] = matrix_ptrs[id][2 * e + 1]

\* C17: OSDIbindCSC binds every non-ground Jacobian entry to the compressed
\* column addresses the table pairs with its stored address, reactive address
\* one slot into the complex one, caches the pair at 2i and 2i+1, leaves the
\* ground entries as they are, and returns E_PANIC at the first stored
\* address that is not in the table, leaving every later entry and instance
\* as it is
C17_BindCSC ==
    [][OSDIbindCSC =>
         /\ ret'.status =
               IF \E id \in Ids(netlist) : \E e \in JacobianEntries : Absent(id, e)
               THEN "E_PANIC" ELSE "OK"
         /\ \A id \in Ids(netlist) :
               /\ inst'[id].node_mapping = inst[id].node_mapping
               /\ \A e \in JacobianEntries :
                     IF Processed(id, e) /\ NonGround(id, e)
                     THEN BoundByStep(id, e)
                     ELSE SameEntry(id, e)]_vars

\* OSDIbindCSC returned OK for an instance with a bound entry that has a
\* reactive address and with a ground entry
C17_Witness ==
    /\ ret.op = "OSDIbindCSC"
    /\ ret.status = "OK"
    /\ \E id \in Ids(netlist) :
          /\ \E e \in JacobianEntries :
                /\ NonGround(id, e)
                /\ inst[id].jac.resist[e].mem = "CSC"
                /\ inst[id].jac.react[e].mem = "CSC_Complex"
                /\ inst[id].jac.react[e].off = 1
                /\ matrix_ptrs[id][2 * e + 1].mem = "CSC_Complex"
          /\ \E e \in JacobianEntries :
                ~NonGround(id, e) /\ inst[id].jac.resist[e] = SMPmakeElt(0, 0)

\* OSDIbindCSC returned E_PANIC at the second instance of two
C17_WitnessPanic ==
    /\ ret.op = "OSDIbindCSC"
    /\ ret.status = "E_PANIC"
    /\ ret.prev = "OSDIsetup"
    /\ \E id1, id2 \in Ids(netlist) :
          /\ Before(id1, id2)
          /\ \E e \in JacobianEntries :
                NonGround(id1, e) /\ inst[id1].jac.resist[e].mem = "CSC"
          /\ \E e \in JacobianEntries :
                NonGround(id2, e) /\ inst[id2].jac.resist[e].mem = "COO"

\* C18: when OSDIbindCSC has returned OK since setup and the table holds
\* every coefficient of the matrix, a further OSDIbindCSC returns OK and
\* leaves every non-ground entry with the address of its own coefficient in
\* the compressed columns as they are now
C18_BindCSCAgain ==
    [][(OSDIbindCSC /\ klu.boundOnce /\ klu.table = matrix) =>
         /\ ret'.status = "OK"
         /\ \A id \in Ids(netlist) : \A e \in JacobianEntries :
               NonGround(id, e) =>
                  inst'[id].jac.resist[e] =
                     BindElement(klu.gen, GlobalPair(id, e)[1], GlobalPair(id, e)[2]).CSC]_vars

\* the statement holds of an OSDIbindCSC that follows OSDIsetup directly
C18_FirstBindCSC ==
    [][(OSDIbindCSC /\ ret.op = "OSDIsetup" /\ klu.table = matrix) =>
         /\ ret'.status = "OK"
         /\ \A id \in Ids(netlist) : \A e \in JacobianEntries :
               NonGround(id, e) =>
                  inst'[id].jac.resist[e] =
                     BindElement(klu.gen, GlobalPair(id, e)[1], GlobalPair(id, e)[2]).CSC]_vars

\* C19: OSDIupdateCSC returns OK, sets the resistive address of every
\* non-ground entry to the cached real (complex = false) or complex
\* (complex = true) address and changes no ground entry, no cached address,
\* no reactive address and no node mapping; after a call with complex =
\* false the resistive addresses are those OSDIbindCSC stored
C19_UpdateCSC ==
    [][\A complex \in BOOLEAN :
         OSDIupdateCSC(complex) =>
           /\ ret'.status = "OK"
           /\ matrix_ptrs' = matrix_ptrs
           /\ klu' = klu
           /\ \A id \in Ids(netlist) :
                 /\ inst'[id].node_mapping = inst[id].node_mapping
                 /\ inst'[id].jac.react = inst[id].jac.react
                 /\ \A e \in JacobianEntries :
                       inst'[id].jac.resist[e] =
                          IF NonGround(id, e)
                          THEN matrix_ptrs[id][2 * e + (IF complex THEN 1 ELSE 0)]
                          ELSE inst[id].jac.resist[e]
           /\ (klu.bound /\ ~complex) => ResistOf(inst') = klu.stored]_vars

\* the addresses were rebound to complex and then back to real
C19_Witness ==
    /\ ret.op = "OSDIbindCSCComplexToReal"
    /\ ret.prev = "OSDIbindCSCComplex"
    /\ klu.bound
    /\ ResistOf(inst) = klu.stored
    /\ \E id \in Ids(netlist) :
          /\ \E e \in JacobianEntries :
                NonGround(id, e) /\ inst[id].jac.resist[e].mem = "CSC"
          /\ \E e \in JacobianEntries :
                ~NonGround(id, e) /\ inst[id].jac.resist[e] = SMPmakeElt(0, 0)

\* the addresses were rebound to complex
C19_WitnessComplex ==
    /\ ret.op = "OSDIbindCSCComplex"
    /\ klu.bound
    /\ \E id \in Ids(netlist) : \E e \in JacobianEntries :
          /\ NonGround(id, e)
          /\ inst[id].jac.resist[e].mem = "CSC_Complex"
          /\ inst[id].jac.resist[e] = matrix_ptrs[id][2 * e + 1]

\* ------------------------------------------- more claims about Spec
\* the loop body after setup_instance wrote nothing for the instance
NotSetUp(id) ==
    /\ inst[id].node_mapping = NewInstance(descr, inst[id].terminals).node_mapping
    /\ inst[id].jac = NewInstance(descr, inst[id].terminals).jac
    /\ inst[id].GENstate = 0
    /\ inst[id].state_idx = NewInstance(descr, inst[id].terminals).state_idx
    /\ allocLog[id] = << >>
    /\ eltLog[id] = << >>
    /\ \A k \in 1..Len(order) : order[k] # id

\* setup_instance was called for the instance, and the instance is fully set
\* up if the call succeeded
Processed22(id) ==
    /\ instRes[id] # "none"
    /\ instRes[id] = "OK" => FullySetUp(id)

\* C22: when setup_instance returned a non-fatal error list for an instance,
\* nothing is written or allocated for the instance and the state counter
\* does not advance for it, and (unless an allocation fails later) the later
\* instances of its model and every later model are processed
C22_InstanceErrorSkipsOnlyIt ==
    InSetupPass =>
      \A id \in Ids(netlist) :
        instRes[id] = "E_PRIVATE" =>
          /\ NotSetUp(id)
          /\ (pc = "idle" \/ aborted = << >>) =>
                states = s0 + SlotsPerInstance * Len(order)
          /\ (SetupReturned /\ aborted = << >>) =>
                /\ \A id2 \in InstancesOf(id[1]) : Before(id, id2) => Processed22(id2)
                /\ \A m2 \in Models : m2 > id[1] =>
                      /\ modRes[m2] # "none"
                      /\ modRes[m2] = "OK" =>
                            \A id2 \in InstancesOf(m2) : Processed22(id2)

\* the first instance of a model was skipped and the second one set up, with
\* a node of its own and a state base
C22_Witness ==
    /\ SetupReturned
    /\ netlist[1] = 2
    /\ instRes[<<1, 1>>] = "E_PRIVATE"
    /\ instRes[<<1, 2>>] = "OK"
    /\ FullySetUp(<<1, 2>>)
    /\ allocLog[<<1, 2>>] # << >>
    /\ inst[<<1, 2>>].GENstate = s0
    /\ states = s0 + SlotsPerInstance

\* an instance of the first model was skipped and one of the second set up
C22_WitnessLaterModel ==
    /\ SetupReturned
    /\ netlist = << 1, 1 >>
    /\ instRes[<<1, 1>>] = "E_PRIVATE"
    /\ modRes[2] = "OK"
    /\ instRes[<<2, 1>>] = "OK"
    /\ FullySetUp(<<2, 1>>)

\* the nodes the last setup pass created for the instance
OwnNodes(id) == {allocLog[id][k].number : k \in 1..Len(allocLog[id])}

\* C23: unsetup releases for each instance only nodes that the last setup
\* pass created for that instance, also after a pass that skipped an
\* instance or was aborted by an allocation failure
C23_ReleasesOnlyOwnNodes ==
    UnsetupReturned =>
      \A id \in Ids(netlist) : relLog[id] \subseteq OwnNodes(id)

=============================================================================
